---- MODULE Spec2Model ----
(***************************************************************************)
(* Model of the lyrics normalizer (format_song and its helpers) and of the *)
(* single-page font-size search (create_pdf) of the song bot.              *)
(*                                                                         *)
(* Text is a sequence of characters, each character a one-character        *)
(* string; a Cyrillic letter is written by its code point ("U+043A").      *)
(* Font sizes are counted in half points (the search moves in steps of     *)
(* 0.5pt, all exactly representable), so 30pt is 60 and 6pt is 12.         *)
(***************************************************************************)
EXTENDS Integers, Sequences, FiniteSets, TLC

VARIABLES
    raw,            \* format_song: the argument raw_text
    out1,           \* format_song(raw_text), once computed
    out2,           \* format_song applied to out1, once computed
    fpc,            \* where the normalizer run stands
    impl,           \* which create_pdf runs: main.py's or LyricsPDFGenerator's
    min_font_size,  \* the font floor, in half points
    fits_below,     \* oracle: the text lays out on one page at sizes <= this
    gap,            \* oracle: a size at which it overflows all the same (0: none)
    pc,             \* where create_pdf stands
    font_size,      \* the search cursor, in half points
    pdf_size,       \* the size the current pdf object was laid out at (0: none)
    pdf_pages,      \* pdf.page_no() of the current pdf object
    probes,         \* calls of check_fits_on_page so far
    renders,        \* calls of create_pdf_with_font_size outside a probe
    attempts,       \* iterations of the additional-reduction loop so far
    saved,          \* the size of the document written to output_path (0: none)
    files,          \* the files that exist in the bot's working directory
    wpc,            \* per handler thread: where its PDF download stands
    left,           \* per handler thread: probes its coarse loop has still to make
    seen,           \* per handler thread: what os.path.exists last returned
    song,           \* per handler thread: the name of the selected song
    err,            \* per handler thread: the exception raised, if any
    user_data,      \* per chat: the stored results, selected song and version pick
    last            \* the event handled last: its chat, its inputs and what it sent

textVars == <<raw, out1, out2, fpc>>
pdfVars == <<impl, min_font_size, fits_below, gap, pc, font_size, pdf_size,
             pdf_pages, probes, renders, attempts, saved>>
botVars == <<files, wpc, left, seen, song, err>>
chatVars == <<user_data, last>>
vars == <<textVars, pdfVars, botVars, chatVars>>

(***************************************************************************)
(* Characters and the string methods the code calls.                       *)
(***************************************************************************)
CasePairs ==
  {
    <<"A", "a">>, <<"B", "b">>, <<"C", "c">>, <<"D", "d">>, <<"E", "e">>, <<"F", "f">>,
    <<"G", "g">>, <<"H", "h">>, <<"I", "i">>, <<"J", "j">>, <<"K", "k">>, <<"L", "l">>,
    <<"M", "m">>, <<"N", "n">>, <<"O", "o">>, <<"P", "p">>, <<"Q", "q">>, <<"R", "r">>,
    <<"S", "s">>, <<"T", "t">>, <<"U", "u">>, <<"V", "v">>, <<"W", "w">>, <<"X", "x">>,
    <<"Y", "y">>, <<"Z", "z">>, <<"U+0410", "U+0430">>, <<"U+0411", "U+0431">>,
    <<"U+0412", "U+0432">>, <<"U+0413", "U+0433">>, <<"U+0414", "U+0434">>,
    <<"U+0415", "U+0435">>, <<"U+0416", "U+0436">>, <<"U+0417", "U+0437">>,
    <<"U+0418", "U+0438">>, <<"U+041A", "U+043A">>, <<"U+041B", "U+043B">>,
    <<"U+041C", "U+043C">>, <<"U+041D", "U+043D">>, <<"U+041E", "U+043E">>,
    <<"U+041F", "U+043F">>, <<"U+0420", "U+0440">>, <<"U+0421", "U+0441">>,
    <<"U+0422", "U+0442">>, <<"U+0423", "U+0443">>, <<"U+0425", "U+0445">>,
    <<"U+0426", "U+0446">>, <<"U+0427", "U+0447">>, <<"U+0428", "U+0448">>,
    <<"U+042B", "U+044B">>, <<"U+042C", "U+044C">>, <<"U+042D", "U+044D">>,
    <<"U+0406", "U+0456">>
  }

LowerMap == [u \in {p[1] : p \in CasePairs} |-> (CHOOSE p \in CasePairs : p[1] = u)[2]]

UpperMap == [l \in {p[2] : p \in CasePairs} |-> (CHOOSE p \in CasePairs : p[2] = l)[1]]

lower_char(c) == IF c \in DOMAIN LowerMap THEN LowerMap[c] ELSE c

upper_char(c) == IF c \in DOMAIN UpperMap THEN UpperMap[c] ELSE c

lower(s) == [i \in 1..Len(s) |-> lower_char(s[i])]

\* capitalize as s[0].upper() + s[1:], the rest left in its case
capitalize_first_only(s) == [i \in 1..Len(s) |-> IF i = 1 THEN upper_char(s[i]) ELSE s[i]]

capitalize(s) == [i \in 1..Len(s) |-> IF i = 1 THEN upper_char(s[i]) ELSE lower_char(s[i])]

IsSpace(c) == c \in {" ", "\t", "\n", "\r", "\f"}

IsDigit(c) == c \in {"0", "1", "2", "3", "4", "5", "6", "7", "8", "9"}

IsWordChar(c) == IsDigit(c) \/ c = "_" \/ c \in DOMAIN LowerMap \/ c \in DOMAIN UpperMap

SetMin(S) == CHOOSE x \in S : \A y \in S : x <= y

SetMax(S) == CHOOSE x \in S : \A y \in S : x >= y

strip(s) ==
    LET keep == {i \in 1..Len(s) : ~IsSpace(s[i])}
    IN  IF keep = {} THEN <<>> ELSE SubSeq(s, SetMin(keep), SetMax(keep))

rstrip_chars(s, chars) ==
    LET keep == {i \in 1..Len(s) : s[i] \notin chars}
    IN  IF keep = {} THEN <<>> ELSE SubSeq(s, 1, SetMax(keep))

startswith_at(s, prefix, i) ==
    /\ i + Len(prefix) - 1 <= Len(s)
    /\ \A k \in 1..Len(prefix) : s[i + k - 1] = prefix[k]

startswith(s, prefix) == startswith_at(s, prefix, 1)

contains(s, sub) == \E i \in 1..(Len(s) + 1) : startswith_at(s, sub, i)

RECURSIVE split_on(_, _)
split_on(s, sep) ==
    LET at == {i \in 1..Len(s) : s[i] = sep}
    IN  IF at = {} THEN <<s>>
        ELSE <<SubSeq(s, 1, SetMin(at) - 1)>>
                 \o split_on(SubSeq(s, SetMin(at) + 1, Len(s)), sep)

RECURSIVE split_ws(_)
split_ws(s) ==
    LET t == strip(s)
        sp == {i \in 1..Len(t) : IsSpace(t[i])}
    IN  IF t = <<>> THEN <<>>
        ELSE IF sp = {} THEN <<t>>
        ELSE <<SubSeq(t, 1, SetMin(sp) - 1)>> \o split_ws(SubSeq(t, SetMin(sp), Len(t)))

RECURSIVE join(_, _)
join(lines, sep) ==
    IF lines = <<>> THEN <<>>
    ELSE IF Len(lines) = 1 THEN lines[1]
    ELSE lines[1] \o sep \o join(Tail(lines), sep)

(***************************************************************************)
(* Python values: a str carries its characters, anything else only its     *)
(* type.  TypeError is what re.sub raises when handed a value that is not  *)
(* a string.                                                               *)
(***************************************************************************)
Str(cs) == [type |-> "str", chars |-> cs]

None == [type |-> "NoneType", chars |-> <<>>]

IntValue == [type |-> "int", chars |-> <<>>]

TypeError == [type |-> "TypeError", chars |-> <<>>]

Unset == [type |-> "unset", chars |-> <<>>]

isinstance_str(v) == v.type = "str"

(***************************************************************************)
(* text_formatter.py                                                       *)
(***************************************************************************)
SECTION_LABELS ==
  {
    <<"0", "|">>, <<"1", "|">>, <<"2", "|">>, <<"3", "|">>, <<"4", "|">>, <<"5", "|">>,
    <<"6", "|">>, <<"7", "|">>, <<"8", "|">>, <<"9", "|">>, <<"0", ":">>, <<"1", ":">>,
    <<"2", ":">>, <<"3", ":">>, <<"4", ":">>, <<"5", ":">>, <<"6", ":">>, <<"7", ":">>,
    <<"8", ":">>, <<"9", ":">>,
    <<"U+0432", "U+0441", "U+0442", "U+0443", "U+043F", "U+043B", "U+0435", "U+043D", "U+0438", "U+0435", ":">>,
    <<"U+0438", "U+043D", "U+0442", "U+0440", "U+043E", ":">>,
    <<"U+043A", "U+0443", "U+043F", "U+043B", "U+0435", "U+0442", ":">>,
    <<"U+043F", "U+0440", "U+0438", "U+043F", "U+0435", "U+0432", ":">>,
    <<"U+043F", "U+0435", "U+0440", "U+0435", "U+0445", "U+043E", "U+0434", ":">>,
    <<"U+0440", "U+0435", "U+043F", ":">>, <<"U+043C", "U+043E", "U+0441", "U+0442", ":">>,
    <<"U+043C", "U+043E", "U+0441", "U+0442", "U+0438", "U+043A", ":">>,
    <<"U+0432", "U+0441", "U+0442", "U+0430", "U+0432", "U+043A", "U+0430", ":">>,
    <<"U+0440", "U+0435", "U+0447", "U+0438", "U+0442", "U+0430", "U+0442", "U+0438", "U+0432", ":">>,
    <<"U+0431", "U+0440", "U+0438", "U+0434", "U+0436", ":">>,
    <<"U+0438", "U+043D", "U+0441", "U+0442", "U+0440", "U+0443", "U+043C", "U+0435", "U+043D", "U+0442", "U+0430", "U+043B", ":">>,
    <<"U+043F", "U+0440", "U+043E", "U+0438", "U+0433", "U+0440", "U+044B", "U+0448", ":">>,
    <<"U+0437", "U+0430", "U+043F", "U+0435", "U+0432", ":">>,
    <<"U+043A", "U+043E", "U+043D", "U+0446", "U+043E", "U+0432", "U+043A", "U+0430", ":">>,
    <<"U+043E", "U+043A", "U+043E", "U+043D", "U+0447", "U+0430", "U+043D", "U+0438", "U+0435", ":">>,
    <<"U+0432", " ", "U+043A", "U+043E", "U+043D", "U+0446", "U+0435", ":">>,
    <<"U+043A", "U+043E", "U+0434", "U+0430", ":">>, <<"U+0442", "U+044D", "U+0433", ":">>,
    <<"i", "n", "t", "r", "o", ":">>, <<"v", "e", "r", "s", "e", ":">>,
    <<"c", "h", "o", "r", "u", "s", ":">>,
    <<"p", "r", "e", " ", "c", "h", "o", "r", "u", "s", ":">>,
    <<"p", "r", "e", "-", "c", "h", "o", "r", "u", "s", ":">>,
    <<"b", "r", "i", "d", "g", "e", ":">>,
    <<"i", "n", "s", "t", "r", "u", "m", "e", "n", "t", "a", "l", ":">>,
    <<"e", "n", "d", "i", "n", "g", ":">>, <<"o", "u", "t", "r", "o", ":">>,
    <<"i", "n", "t", "e", "r", "l", "u", "d", "e", ":">>, <<"r", "a", "p", ":">>,
    <<"s", "p", "o", "n", "t", "a", "n", "e", "o", "u", "s", ":">>,
    <<"r", "e", "f", "r", "a", "i", "n", ":">>, <<"t", "a", "g", ":">>,
    <<"c", "o", "d", "a", ":">>, <<"v", "a", "m", "p", ":">>,
    <<"c", "h", "a", "n", "n", "e", "l", ":">>,
    <<"b", "r", "e", "a", "k", "d", "o", "w", "n", ":">>, <<"h", "o", "o", "k", ":">>,
    <<"U+0432", "U+0441", "U+0442", "U+0443", "U+043F", ":">>,
    <<"U+043F", "U+0440", "U+0438", "U+0441", "U+043F", "U+0456", "U+0432", ":">>,
    <<"U+0431", "U+0440", "U+0456", "U+0434", "U+0436", ":">>,
    <<"U+0437", "U+0430", "U+0441", "U+043F", "U+0456", "U+0432", ":">>,
    <<"U+043C", "U+0456", "U+0441", "U+0442", ":">>,
    <<"U+043F", "U+0440", "U+043E", "U+0433", "U+0440", "U+0430", "U+0448", ":">>,
    <<"U+043F", "U+0435", "U+0440", "U+0435", "U+0445", "U+0456", "U+0434", ":">>,
    <<"U+0456", "U+043D", "U+0442", "U+0440", "U+043E", ":">>,
    <<"U+043F", "U+043E", "U+0432", "U+0442", "U+043E", "U+0440", ":">>,
    <<"U+043A", "U+0456", "U+043D", "U+0435", "U+0446", "U+044C", ":">>,
    <<"U+0442", "U+0435", "U+0433", ":">>
  }

ChordSuffixes ==
  {
    <<"2">>, <<"4">>, <<"5">>, <<"6">>, <<"7">>, <<"9">>, <<"m">>, <<"+", "2">>, <<"+", "3">>,
    <<"+", "4">>, <<"+", "5">>, <<"+", "6">>, <<"+", "7">>, <<"+", "8">>, <<"+", "9">>,
    <<"-", "5">>, <<"1", "1">>, <<"1", "3">>, <<"b", "5">>, <<"m", "6">>, <<"m", "7">>,
    <<"m", "9">>, <<"+", "1", "1">>, <<"+", "1", "2">>, <<"+", "1", "3">>, <<"6", "/", "9">>,
    <<"7", "#", "5">>, <<"7", "#", "9">>, <<"7", "+", "3">>, <<"7", "+", "5">>,
    <<"7", "+", "9">>, <<"7", "-", "5">>, <<"7", "-", "9">>, <<"7", "b", "5">>,
    <<"7", "b", "9">>, <<"a", "u", "g">>, <<"d", "i", "m">>, <<"m", "1", "1">>,
    <<"m", "1", "3">>, <<"m", "a", "j">>, <<"m", "b", "5">>, <<"s", "u", "s">>,
    <<"a", "d", "d", "2">>, <<"a", "d", "d", "4">>, <<"a", "d", "d", "6">>,
    <<"a", "d", "d", "9">>, <<"d", "i", "m", "7">>, <<"m", "7", "b", "5">>,
    <<"m", "a", "j", "7">>, <<"m", "a", "j", "9">>, <<"s", "u", "s", "2">>,
    <<"s", "u", "s", "4">>, <<"7", "s", "u", "s", "2">>, <<"7", "s", "u", "s", "4">>,
    <<"a", "d", "d", "1", "1">>, <<"m", "a", "j", "1", "1">>, <<"m", "a", "j", "1", "2">>,
    <<"m", "a", "j", "1", "3">>, <<"m", "/", "m", "a", "j", "7">>,
    <<"m", "7", "a", "d", "d", "1", "1">>
  }

CHORD_SYMBOLS ==
    {<<"|">>, <<"/">>, <<"(">>, <<")">>, <<"-">>, <<"x", "2">>, <<"x", "3">>,
     <<"x", "4">>, <<"x", "5">>, <<"x", "6">>, <<"N", "C">>}

ChordRoots == {"a", "b", "c", "d", "e", "f", "g", "h"}

Accidentals == {"b", "#"}

RECURSIVE BassStar(_, _)
BassStar(t, i) ==
    \/ i = Len(t) + 1
    \/ /\ i + 1 <= Len(t)
       /\ t[i] = "/"
       /\ t[i + 1] \in ChordRoots
       /\ \E j \in (i + 2)..(Len(t) + 1) :
             /\ \A k \in (i + 2)..(j - 1) : t[k] \in Accidentals
             /\ BassStar(t, j)

RECURSIVE SuffixStar(_, _)
SuffixStar(t, i) ==
    \/ BassStar(t, i)
    \/ \E s \in ChordSuffixes : startswith_at(t, s, i) /\ SuffixStar(t, i + Len(s))

CHORD_REGEX_match(token) ==
    LET t == lower(token)
    IN  /\ Len(t) >= 1
        /\ t[1] \in ChordRoots
        /\ \/ SuffixStar(t, 2)
           \/ Len(t) >= 2 /\ t[2] \in Accidentals /\ SuffixStar(t, 3)

trim(s) == IF isinstance_str(s) THEN strip(s.chars) ELSE <<>>

\* is_non_empty without the isinstance test: any other value counts as non-empty
is_non_empty_truthy(s) == IF isinstance_str(s) THEN strip(s.chars) # <<>> ELSE TRUE

is_non_empty(s) == isinstance_str(s) /\ strip(s.chars) # <<>>

IsEntityChar(c) == IsWordChar(c) \/ c = "#"

EntityLen(s) ==
    IF s = <<>> \/ s[1] # "&" THEN 0
    ELSE LET stops == {j \in 2..Len(s) : ~IsEntityChar(s[j])}
             stop == IF stops = {} THEN Len(s) + 1 ELSE SetMin(stops)
         IN  IF stop > 2 /\ stop <= Len(s) /\ s[stop] = ";" THEN stop ELSE 0

RECURSIVE remove_entities(_)
remove_entities(s) ==
    IF s = <<>> THEN <<>>
    ELSE IF EntityLen(s) > 0 THEN remove_entities(SubSeq(s, EntityLen(s) + 1, Len(s)))
    ELSE <<s[1]>> \o remove_entities(Tail(s))

re_sub_entities(s) == IF isinstance_str(s) THEN Str(remove_entities(s.chars)) ELSE TypeError

clean_html_entities(s) == IF is_non_empty(s) THEN re_sub_entities(s) ELSE Str(<<>>)

\* is_chord_line without the CHORD_SYMBOLS alternative
is_chord_line_regex_only(line) ==
    IF ~is_non_empty(Str(line)) THEN FALSE
    ELSE LET tokens == split_ws(trim(Str(line)))
         IN  \A k \in 1..Len(tokens) : CHORD_REGEX_match(tokens[k])

\* is_chord_line with any() in place of all()
is_chord_line_any(line) ==
    IF ~is_non_empty(Str(line)) THEN FALSE
    ELSE LET tokens == split_ws(trim(Str(line)))
         IN  \E k \in 1..Len(tokens) :
                 \/ CHORD_REGEX_match(tokens[k])
                 \/ \E sym \in CHORD_SYMBOLS : contains(tokens[k], sym)

is_chord_line(line) ==
    IF ~is_non_empty(Str(line)) THEN FALSE
    ELSE LET tokens == split_ws(trim(Str(line)))
         IN  \A k \in 1..Len(tokens) :
                 \/ CHORD_REGEX_match(tokens[k])
                 \/ \E sym \in CHORD_SYMBOLS : contains(tokens[k], sym)

is_section_label(line) ==
    LET l == lower(trim(Str(line)))
    IN  \E label \in SECTION_LABELS : startswith(l, rstrip_chars(label, {":", "|"}))

NumberedWords ==
    {<<"U+043A", "U+0443", "U+043F", "U+043B", "U+0435", "U+0442">>,
     <<"U+0431", "U+0440", "U+0438", "U+0434", "U+0436">>,
     <<"v", "e", "r", "s", "e">>,
     <<"b", "r", "i", "d", "g", "e">>}

NoMatch == [number |-> <<>>, type |-> <<>>]

is_numbered_section(line) ==
    LET s == strip(line)
        nondigit == {i \in 1..Len(s) : ~IsDigit(s[i])}
        d == IF nondigit = {} THEN Len(s) + 1 ELSE SetMin(nondigit)
        nonspace == {i \in d..Len(s) : ~IsSpace(s[i])}
        w == IF nonspace = {} THEN Len(s) + 1 ELSE SetMin(nonspace)
        words == {x \in NumberedWords : startswith_at(lower(s), x, w)}
    IN  IF d > 1 /\ words # {}
        THEN LET word == CHOOSE x \in words : TRUE
             IN  [number |-> SubSeq(s, 1, d - 1),
                  type |-> capitalize(SubSeq(s, w, w + Len(word) - 1))]
        ELSE NoMatch

\* the blank-line test without found_header: a blank before the first header too
needs_blank_no_flag(result, found_header) == result # <<>> /\ result[Len(result)] # <<>>

needs_blank(result, found_header) ==
    found_header /\ result # <<>> /\ result[Len(result)] # <<>>

\* the header pass that also drops a line equal to the line before it
RECURSIVE format_lines_loop_dedup(_, _, _)
format_lines_loop_dedup(lines, result, found_header) ==
    IF lines = <<>> THEN result
    ELSE LET line == trim(Str(Head(lines)))
             header == startswith(line, <<"#", "#", "(">>)
             spaced == IF header /\ needs_blank(result, found_header)
                       THEN Append(result, <<>>)
                       ELSE result
             kept == IF line # <<"/", "/">> /\ (spaced = <<>> \/ spaced[Len(spaced)] # line)
                     THEN Append(spaced, line) ELSE spaced
         IN  format_lines_loop_dedup(Tail(lines), kept, found_header \/ header)

RECURSIVE format_lines_loop(_, _, _)
format_lines_loop(lines, result, found_header) ==
    IF lines = <<>> THEN result
    ELSE LET line == trim(Str(Head(lines)))
             header == startswith(line, <<"#", "#", "(">>)
             spaced == IF header /\ needs_blank(result, found_header)
                       THEN Append(result, <<>>)
                       ELSE result
             kept == IF line # <<"/", "/">> THEN Append(spaced, line) ELSE spaced
         IN  format_lines_loop(Tail(lines), kept, found_header \/ header)

format_lines(text) ==
    IF ~is_non_empty(Str(text)) THEN <<>>
    ELSE strip(join(format_lines_loop(split_on(text, "\n"), <<>>, FALSE), <<"\n">>))

\* the label rewrite without the re.sub: a ':' is appended to the line as it is
rewrite_label_append(line) == line \o <<":">>

\* the label rewrite with the pattern ':$', which leaves a trailing '|'
rewrite_label_colon_only(line) ==
    LET n == Len(line)
    IN  (IF n > 0 /\ line[n] = ":" THEN SubSeq(line, 1, n - 1) ELSE line) \o <<":">>

rewrite_label(line) ==
    LET n == Len(line)
    IN  (IF n > 0 /\ line[n] \in {":", "|"} THEN SubSeq(line, 1, n - 1) ELSE line)
            \o <<":">>

\* the line loop with the section-label test ahead of the numbered-section test
RECURSIVE format_song_loop_label_first(_, _)
format_song_loop_label_first(lines, output) ==
    IF lines = <<>> THEN output
    ELSE LET line == trim(Str(Head(lines)))
             section == is_numbered_section(line)
             next == IF line = <<>> \/ is_chord_line(line) THEN output
                     ELSE IF is_section_label(line) THEN Append(output, rewrite_label(line))
                     ELSE IF section # NoMatch
                          THEN Append(output, section.type \o <<" ">> \o section.number
                                                  \o <<":">>)
                     ELSE Append(output, line)
         IN  format_song_loop_label_first(Tail(lines), next)

\* the line loop that puts each kept line ahead of the lines kept so far
RECURSIVE format_song_loop_prepend(_, _)
format_song_loop_prepend(lines, output) ==
    IF lines = <<>> THEN output
    ELSE LET line == trim(Str(Head(lines)))
             section == is_numbered_section(line)
             next == IF line = <<>> \/ is_chord_line(line) THEN output
                     ELSE IF section # NoMatch
                          THEN <<section.type \o <<" ">> \o section.number \o <<":">>>>
                                   \o output
                     ELSE IF is_section_label(line) THEN <<rewrite_label(line)>> \o output
                     ELSE <<line>> \o output
         IN  format_song_loop_prepend(Tail(lines), next)

RECURSIVE format_song_loop(_, _)
format_song_loop(lines, output) ==
    IF lines = <<>> THEN output
    ELSE LET line == trim(Str(Head(lines)))
             section == is_numbered_section(line)
             next == IF line = <<>> \/ is_chord_line(line) THEN output
                     ELSE IF section # NoMatch
                          THEN Append(output, section.type \o <<" ">> \o section.number
                                                  \o <<":">>)
                     ELSE IF is_section_label(line) THEN Append(output, rewrite_label(line))
                     ELSE Append(output, line)
         IN  format_song_loop(Tail(lines), next)

format_song(raw_text) ==
    IF ~is_non_empty(raw_text) THEN Str(<<>>)
    ELSE LET text == clean_html_entities(raw_text)
         IN  IF ~isinstance_str(text) THEN text
             ELSE Str(format_lines(join(format_song_loop(split_on(text.chars, "\n"),
                                                          <<>>), <<"\n">>)))

(***************************************************************************)
(* The texts handed to format_song: one line put together from a head and  *)
(* a tail, alone or followed by a lyric line; up to MaxLines simple lines; *)
(* and values that are not strings.                                        *)
(***************************************************************************)
MaxLines == 3

Heads ==
    {<<>>,
     <<"C", "h", "o", "r", "u", "s">>,
     <<"1", " ", "U+043A", "U+0443", "U+043F", "U+043B", "U+0435", "U+0442">>,
     <<"2", "V", "E", "R", "S", "E">>,
     <<"A", "m", " ", "G", " ">>,
     <<"#", "#", "(", "a">>,
     <<"&", "a">>,
     <<"&", "x", "2", ";">>,
     <<"1">>,
     <<" ", "\t">>}

Tails ==
    {<<>>,
     <<"|">>,
     <<":">>,
     <<" ", "|">>,
     <<"L", "a", " ", "l", "a">>,
     <<"H", "e", "l", "l", "o">>,
     <<"C">>,
     <<"C", "a", "e", "s", "a", "r">>,
     <<"&", "b", ";", "c", ";", " ", "x">>,
     <<" ", "x">>,
     <<")">>}

Followers ==
    {<<"L", "a", " ", "l", "a">>,
     <<"H", "e", "l", "l", "o">>}

BasicLines ==
    {<<"#", "#", "(", "a", " ", "x">>,
     <<"#", "#", "(", "b", ")">>,
     <<"f", "o", "o">>,
     <<>>,
     <<"A", "m", " ", "G">>,
     <<"C", "h", "o", "r", "u", "s", ":">>,
     <<"1", " ", "v", "e", "r", "s", "e">>,
     <<"/", "/">>}

ComposedLines == {h \o t : h \in Heads, t \in Tails}

ComposedTexts ==
    ComposedLines \cup {l \o <<"\n">> \o f : l \in ComposedLines, f \in Followers}

SimpleTexts ==
    {join(ls, <<"\n">>) : ls \in UNION {[1..n -> BasicLines] : n \in 1..MaxLines}}

Inputs == {Str(t) : t \in ComposedTexts \cup SimpleTexts} \cup {None, IntValue}

(***************************************************************************)
(* The normalizer run: format_song on the input, then on its own output.   *)
(***************************************************************************)
\* the handler threads of the bot, one PDF download each
Workers == {1, 2}

\* the chats the bot talks to
Chats == {1, 2}

\* user_data without an entry for the chat; a missing key reads as None
NoData == [present |-> FALSE, results |-> <<>>, selected |-> "none", version_pick |-> "none"]

\* no event handled yet
NoEvent ==
    [chat |-> 0, event |-> "none", index |-> 0 - 1, status |-> "none", answer |-> <<>>,
     replies |-> <<>>, catalog |-> 0]

InitFormat ==
    /\ raw \in Inputs
    /\ out1 = Unset
    /\ out2 = Unset
    /\ fpc = "input"
    /\ impl = "none"
    /\ min_font_size = 0
    /\ fits_below = 0
    /\ gap = 0
    /\ pc = "idle"
    /\ font_size = 0
    /\ pdf_size = 0
    /\ pdf_pages = 0
    /\ probes = 0
    /\ renders = 0
    /\ attempts = 0
    /\ saved = 0
    /\ files = {}
    /\ wpc = [w \in Workers |-> "off"]
    /\ left = [w \in Workers |-> 0]
    /\ seen = [w \in Workers |-> FALSE]
    /\ song = [w \in Workers |-> "none"]
    /\ err = [w \in Workers |-> "none"]
    /\ user_data = [c \in Chats |-> NoData]
    /\ last = NoEvent

Normalize ==
    /\ fpc = "input"
    /\ out1' = format_song(raw)
    /\ fpc' = "once"
    /\ UNCHANGED <<raw, out2, pdfVars, botVars, chatVars>>

Renormalize ==
    /\ fpc = "once"
    /\ out2' = format_song(out1)
    /\ fpc' = "twice"
    /\ UNCHANGED <<raw, out1, pdfVars, botVars, chatVars>>

NextFormat == Normalize \/ Renormalize

(***************************************************************************)
(* create_pdf: main.py's function and LyricsPDFGenerator's method.  The    *)
(* layout engine (FPDF) is an oracle: the page count is a function of the  *)
(* font size alone, one page at the sizes up to fits_below other than gap. *)
(***************************************************************************)
StartFontSize == 60

DefaultMinFontSize == 12

CustomMinFontSize == 24

\* the coarse step taken upwards
CoarseStepUp == 0 - 1

\* the coarse step taken as a whole point, and as nothing
CoarseStepDouble == 1 + 1

CoarseStepZero == 1 - 1

CoarseStep == 1

additional_reduction == 1

max_attempts == 10

GeneratorFloors ==
    {DefaultMinFontSize, CustomMinFontSize, StartFontSize - 1, StartFontSize,
     StartFontSize + 2}

Thresholds == (DefaultMinFontSize - 2)..(StartFontSize + 1)

Gaps(t) == {0} \cup {g \in {t - 1, t - 3} : g >= DefaultMinFontSize}

page_no(size) == IF size <= fits_below /\ size # gap THEN 1 ELSE 2

\* max() that returns its first argument
MaxFirst(a, b) == a

Max(a, b) == IF a >= b THEN a ELSE b

InitPdf ==
    /\ impl \in {"main", "generator"}
    /\ min_font_size \in (IF impl = "main" THEN {DefaultMinFontSize} ELSE GeneratorFloors)
    /\ fits_below \in Thresholds
    /\ gap \in Gaps(fits_below)
    /\ pc = "coarse"
    /\ font_size = StartFontSize
    /\ pdf_size = 0
    /\ pdf_pages = 0
    /\ probes = 0
    /\ renders = 0
    /\ attempts = 0
    /\ saved = 0
    /\ raw = Str(<<>>)
    /\ out1 = Unset
    /\ out2 = Unset
    /\ fpc = "idle"
    /\ files = {}
    /\ wpc = [w \in Workers |-> "off"]
    /\ left = [w \in Workers |-> 0]
    /\ seen = [w \in Workers |-> FALSE]
    /\ song = [w \in Workers |-> "none"]
    /\ err = [w \in Workers |-> "none"]
    /\ user_data = [c \in Chats |-> NoData]
    /\ last = NoEvent

\* the loop with the decrement ahead of the break
CoarseFitsThenStep ==
    /\ pc = "coarse"
    /\ font_size > min_font_size
    /\ page_no(font_size) = 1
    /\ probes' = probes + 1
    /\ font_size' = font_size - CoarseStep
    /\ pc' = "found"
    /\ UNCHANGED <<impl, min_font_size, fits_below, gap, pdf_size, pdf_pages, renders,
                   attempts, saved, textVars, botVars, chatVars>>

\* a loop iteration whose check_fits_on_page succeeds: break
CoarseFits ==
    /\ pc = "coarse"
    /\ font_size > min_font_size
    /\ page_no(font_size) = 1
    /\ probes' = probes + 1
    /\ pc' = "found"
    /\ UNCHANGED <<impl, min_font_size, fits_below, gap, font_size, pdf_size, pdf_pages,
                   renders, attempts, saved, textVars, botVars, chatVars>>

\* a loop iteration whose check_fits_on_page fails: font_size -= 0.5
CoarseOverflows ==
    /\ pc = "coarse"
    /\ font_size > min_font_size
    /\ page_no(font_size) # 1
    /\ probes' = probes + 1
    /\ font_size' = font_size - CoarseStep
    /\ UNCHANGED <<impl, min_font_size, fits_below, gap, pc, pdf_size, pdf_pages, renders,
                   attempts, saved, textVars, botVars, chatVars>>

\* the loop condition tested after one probe (a do-while)
CoarseExhaustedProbes ==
    /\ pc = "coarse"
    /\ font_size <= min_font_size
    /\ probes' = probes + 1
    /\ pc' = "found"
    /\ UNCHANGED <<impl, min_font_size, fits_below, gap, font_size, pdf_size, pdf_pages,
                   renders, attempts, saved, textVars, botVars, chatVars>>

\* the loop condition font_size > min_font_size is false
CoarseExhausted ==
    /\ pc = "coarse"
    /\ font_size <= min_font_size
    /\ pc' = "found"
    /\ UNCHANGED <<impl, min_font_size, fits_below, gap, font_size, pdf_size, pdf_pages,
                   probes, renders, attempts, saved, textVars, botVars, chatVars>>

\* the final document is laid out; the generator first takes max(font_size, floor)
FinalRender ==
    /\ pc = "found"
    /\ LET size == IF impl = "generator" THEN Max(font_size, min_font_size) ELSE font_size
       IN  /\ font_size' = size
           /\ pdf_size' = size
           /\ pdf_pages' = page_no(size)
           /\ pc' = IF impl = "main" /\ page_no(size) > 1 THEN "reduce" ELSE "save"
    /\ renders' = renders + 1
    /\ UNCHANGED <<impl, min_font_size, fits_below, gap, probes, attempts, saved,
                   textVars, botVars, chatVars>>

\* the additional-reduction loop without the clamp: the decremented size is rendered
AdditionalReductionNoClamp ==
    /\ pc = "reduce"
    /\ attempts < max_attempts
    /\ attempts' = attempts + 1
    /\ LET size == font_size - additional_reduction
       IN  IF size < min_font_size
           THEN /\ font_size' = size
                /\ pdf_size' = size
                /\ pdf_pages' = page_no(size)
                /\ renders' = renders + 1
                /\ pc' = "save"
           ELSE /\ font_size' = size
                /\ pdf_size' = size
                /\ pdf_pages' = page_no(size)
                /\ renders' = renders + 1
                /\ pc' = IF page_no(size) = 1 \/ size <= min_font_size
                            \/ attempts + 1 >= max_attempts
                         THEN "save" ELSE "reduce"
    /\ UNCHANGED <<impl, min_font_size, fits_below, gap, probes, saved, textVars, botVars, chatVars>>

\* the additional-reduction loop that breaks below the floor without setting the size back
AdditionalReductionKeepsDecrement ==
    /\ pc = "reduce"
    /\ attempts < max_attempts
    /\ attempts' = attempts + 1
    /\ LET size == font_size - additional_reduction
       IN  IF size < min_font_size
           THEN /\ font_size' = size
                /\ pc' = "save"
                /\ UNCHANGED <<pdf_size, pdf_pages, renders>>
           ELSE /\ font_size' = size
                /\ pdf_size' = size
                /\ pdf_pages' = page_no(size)
                /\ renders' = renders + 1
                /\ pc' = IF page_no(size) = 1 \/ size <= min_font_size
                            \/ attempts + 1 >= max_attempts
                         THEN "save" ELSE "reduce"
    /\ UNCHANGED <<impl, min_font_size, fits_below, gap, probes, saved, textVars, botVars, chatVars>>

\* the additional-reduction loop that renders again at the floor after the clamp
AdditionalReductionRerenders ==
    /\ pc = "reduce"
    /\ attempts < max_attempts
    /\ attempts' = attempts + 1
    /\ LET size == font_size - additional_reduction
       IN  IF size < min_font_size
           THEN /\ font_size' = min_font_size
                /\ pdf_size' = min_font_size
                /\ pdf_pages' = page_no(min_font_size)
                /\ renders' = renders + 1
                /\ pc' = "save"
           ELSE /\ font_size' = size
                /\ pdf_size' = size
                /\ pdf_pages' = page_no(size)
                /\ renders' = renders + 1
                /\ pc' = IF page_no(size) = 1 \/ size <= min_font_size
                            \/ attempts + 1 >= max_attempts
                         THEN "save" ELSE "reduce"
    /\ UNCHANGED <<impl, min_font_size, fits_below, gap, probes, saved, textVars, botVars, chatVars>>

\* the additional-reduction loop without the break after the clamp
AdditionalReductionNoBreak ==
    /\ pc = "reduce"
    /\ attempts < max_attempts
    /\ attempts' = attempts + 1
    /\ LET size == font_size - additional_reduction
       IN  IF size < min_font_size
           THEN /\ font_size' = min_font_size
                /\ pc' = IF attempts + 1 >= max_attempts THEN "save" ELSE "reduce"
                /\ UNCHANGED <<pdf_size, pdf_pages, renders>>
           ELSE /\ font_size' = size
                /\ pdf_size' = size
                /\ pdf_pages' = page_no(size)
                /\ renders' = renders + 1
                /\ pc' = IF page_no(size) = 1 \/ size <= min_font_size
                            \/ attempts + 1 >= max_attempts
                         THEN "save" ELSE "reduce"
    /\ UNCHANGED <<impl, min_font_size, fits_below, gap, probes, saved, textVars, botVars, chatVars>>

\* one iteration of main.py's additional-reduction loop
AdditionalReduction ==
    /\ pc = "reduce"
    /\ attempts < max_attempts
    /\ attempts' = attempts + 1
    /\ LET size == font_size - additional_reduction
       IN  IF size < min_font_size
           THEN /\ font_size' = min_font_size
                /\ pc' = "save"
                /\ UNCHANGED <<pdf_size, pdf_pages, renders>>
           ELSE /\ font_size' = size
                /\ pdf_size' = size
                /\ pdf_pages' = page_no(size)
                /\ renders' = renders + 1
                /\ pc' = IF page_no(size) = 1 \/ size <= min_font_size
                            \/ attempts + 1 >= max_attempts
                         THEN "save" ELSE "reduce"
    /\ UNCHANGED <<impl, min_font_size, fits_below, gap, probes, saved, textVars, botVars, chatVars>>

\* pdf.output(output_path) reached only with a one-page document
SaveIfOnePage ==
    /\ pc = "save"
    /\ pdf_pages = 1
    /\ saved' = pdf_size
    /\ pc' = "done"
    /\ UNCHANGED <<impl, min_font_size, fits_below, gap, font_size, pdf_size, pdf_pages,
                   probes, renders, attempts, textVars, botVars, chatVars>>

\* pdf.output(output_path)
Save ==
    /\ pc = "save"
    /\ saved' = pdf_size
    /\ pc' = "done"
    /\ UNCHANGED <<impl, min_font_size, fits_below, gap, font_size, pdf_size, pdf_pages,
                   probes, renders, attempts, textVars, botVars, chatVars>>

NextPdf ==
    \/ CoarseFits
    \/ CoarseOverflows
    \/ CoarseExhausted
    \/ FinalRender
    \/ AdditionalReduction
    \/ Save

Spec == InitFormat /\ [][NextFormat]_vars

SpecPdf == InitPdf /\ [][NextPdf]_vars

(***************************************************************************)
(* PDF downloads on the bot's handler threads.  Each download probes the   *)
(* fit through the file temp_check.pdf in the working directory, writes    *)
(* "<song name>.pdf", sends it and removes it.  A step is one file-system  *)
(* call; the layouts themselves are in memory and touch no file.           *)
(***************************************************************************)
MaxProbes == 2

Songs == {"Yesterday", "Imagine"}

temp_pdf_path == <<"temp_check", ".pdf">>

output_path(song_name) == <<song_name, ".pdf">>

InitBot ==
    /\ files = {}
    /\ \E active \in SUBSET Workers \ {{}} :
          /\ wpc = [w \in Workers |-> IF w \in active THEN "probe_write" ELSE "off"]
          /\ left \in [Workers -> 0..MaxProbes]
          /\ \A w \in Workers : left[w] = 0 <=> w \notin active
          /\ song \in [Workers -> Songs \cup {"none"}]
          /\ \A w \in Workers : song[w] = "none" <=> w \notin active
    /\ seen = [w \in Workers |-> FALSE]
    /\ err = [w \in Workers |-> "none"]
    /\ user_data = [c \in Chats |-> NoData]
    /\ last = NoEvent
    /\ raw = Str(<<>>)
    /\ out1 = Unset
    /\ out2 = Unset
    /\ fpc = "idle"
    /\ impl = "none"
    /\ min_font_size = 0
    /\ fits_below = 0
    /\ gap = 0
    /\ pc = "idle"
    /\ font_size = 0
    /\ pdf_size = 0
    /\ pdf_pages = 0
    /\ probes = 0
    /\ renders = 0
    /\ attempts = 0
    /\ saved = 0

\* test_pdf.output(temp_pdf_path)
ProbeWrite(w) ==
    /\ wpc[w] = "probe_write"
    /\ files' = files \cup {temp_pdf_path}
    /\ wpc' = [wpc EXCEPT ![w] = "probe_check"]
    /\ UNCHANGED <<left, seen, song, err, textVars, pdfVars, chatVars>>

\* test_pdf.output(temp_pdf_path) raises while writing: the file may have been
\* created already; nothing catches the error, so the clean-up is skipped
ProbeWriteFails(w) ==
    /\ wpc[w] = "probe_write"
    /\ files' \in {files, files \cup {temp_pdf_path}}
    /\ err' = [err EXCEPT ![w] = "OSError"]
    /\ wpc' = [wpc EXCEPT ![w] = "failed"]
    /\ UNCHANGED <<left, seen, song, textVars, pdfVars, chatVars>>

\* os.path.exists(temp_pdf_path)
ProbeExists(w) ==
    /\ wpc[w] = "probe_check"
    /\ seen' = [seen EXCEPT ![w] = temp_pdf_path \in files]
    /\ wpc' = [wpc EXCEPT ![w] = "probe_remove"]
    /\ UNCHANGED <<files, left, song, err, textVars, pdfVars, chatVars>>

\* os.remove(temp_pdf_path) if the file was seen; FileNotFoundError if it is gone
ProbeRemove(w) ==
    /\ wpc[w] = "probe_remove"
    /\ IF ~seen[w]
       THEN /\ wpc' = [wpc EXCEPT ![w] = "probe_return"]
            /\ UNCHANGED <<files, err>>
       ELSE IF temp_pdf_path \in files
       THEN /\ files' = files \ {temp_pdf_path}
            /\ wpc' = [wpc EXCEPT ![w] = "probe_return"]
            /\ UNCHANGED err
       ELSE /\ err' = [err EXCEPT ![w] = "FileNotFoundError"]
            /\ wpc' = [wpc EXCEPT ![w] = "failed"]
            /\ UNCHANGED files
    /\ UNCHANGED <<left, seen, song, textVars, pdfVars, chatVars>>

\* return fits_on_page: the coarse loop probes again or the search ends
ProbeReturn(w) ==
    /\ wpc[w] = "probe_return"
    /\ left' = [left EXCEPT ![w] = left[w] - 1]
    /\ wpc' = [wpc EXCEPT ![w] = IF left[w] > 1 THEN "probe_write" ELSE "output"]
    /\ UNCHANGED <<files, seen, song, err, textVars, pdfVars, chatVars>>

\* pdf.output(output_path), after the final layout
OutputWrite(w) ==
    /\ wpc[w] = "output"
    /\ files' = files \cup {output_path(song[w])}
    /\ wpc' = [wpc EXCEPT ![w] = "send"]
    /\ UNCHANGED <<left, seen, song, err, textVars, pdfVars, chatVars>>

\* send_document raises (the upload fails): the handler's except branch reports
\* the error; os.remove(filename) is not reached
SendDocumentFails(w) ==
    /\ wpc[w] = "send"
    /\ output_path(song[w]) \in files
    /\ err' = [err EXCEPT ![w] = "ApiException"]
    /\ wpc' = [wpc EXCEPT ![w] = "failed"]
    /\ UNCHANGED <<files, left, seen, song, textVars, pdfVars, chatVars>>

\* open(filename, "rb") and send_document
SendDocument(w) ==
    /\ wpc[w] = "send"
    /\ IF output_path(song[w]) \in files
       THEN /\ wpc' = [wpc EXCEPT ![w] = "cleanup"]
            /\ UNCHANGED err
       ELSE /\ err' = [err EXCEPT ![w] = "FileNotFoundError"]
            /\ wpc' = [wpc EXCEPT ![w] = "failed"]
    /\ UNCHANGED <<files, left, seen, song, textVars, pdfVars, chatVars>>

\* os.remove(filename)
RemoveOutput(w) ==
    /\ wpc[w] = "cleanup"
    /\ IF output_path(song[w]) \in files
       THEN /\ files' = files \ {output_path(song[w])}
            /\ wpc' = [wpc EXCEPT ![w] = "done"]
            /\ UNCHANGED err
       ELSE /\ err' = [err EXCEPT ![w] = "FileNotFoundError"]
            /\ wpc' = [wpc EXCEPT ![w] = "failed"]
            /\ UNCHANGED files
    /\ UNCHANGED <<left, seen, song, textVars, pdfVars, chatVars>>

NextBot ==
    \E w \in Workers :
        \/ ProbeWrite(w)
        \/ ProbeWriteFails(w)
        \/ ProbeExists(w)
        \/ ProbeRemove(w)
        \/ ProbeReturn(w)
        \/ OutputWrite(w)
        \/ SendDocument(w)
        \/ SendDocumentFails(w)
        \/ RemoveOutput(w)

SpecBot == InitBot /\ [][NextBot]_vars

(***************************************************************************)
(* The bot's per-chat state.  user_data maps a chat to its last search     *)
(* results, the selected song and the version-pick message.  A step is one *)
(* handler run from start to end; last records what that run was given and *)
(* what it sent.  Songs are told apart by their names.                     *)
(***************************************************************************)
\* the choice buttons shown for a result list: enumerate(songs[:5])
ShownButtons == 5

ButtonIndexes == 0..(ShownButtons - 1)

\* what the catalog can answer to a search: a list of songs, each song once
CatalogLists ==
    {songs \in UNION {[1..n -> Songs] : n \in 0..Cardinality(Songs)} :
        \A i, j \in 1..Len(songs) : songs[i] = songs[j] => i = j}

Event(c, e, i, st, ans, msgs, n) ==
    [chat |-> c, event |-> e, index |-> i, status |-> st, answer |-> ans,
     replies |-> msgs, catalog |-> n]

InitChat ==
    /\ user_data = [c \in Chats |-> NoData]
    /\ last = NoEvent
    /\ files = {}
    /\ wpc = [w \in Workers |-> "off"]
    /\ left = [w \in Workers |-> 0]
    /\ seen = [w \in Workers |-> FALSE]
    /\ song = [w \in Workers |-> "none"]
    /\ err = [w \in Workers |-> "none"]
    /\ raw = Str(<<>>)
    /\ out1 = Unset
    /\ out2 = Unset
    /\ fpc = "idle"
    /\ impl = "none"
    /\ min_font_size = 0
    /\ fits_below = 0
    /\ gap = 0
    /\ pc = "idle"
    /\ font_size = 0
    /\ pdf_size = 0
    /\ pdf_pages = 0
    /\ probes = 0
    /\ renders = 0
    /\ attempts = 0
    /\ saved = 0

\* handle_song_request: search_songs raises
SearchFails(c) ==
    /\ last' = Event(c, "search", 0 - 1, "failed", <<>>, <<"search_error">>, 1)
    /\ UNCHANGED <<user_data, files, wpc, left, seen, song, err, textVars, pdfVars>>

\* the store with the old entry kept and only "results" replaced
SearchStoresKeepingEntry(c, songs) ==
    [user_data EXCEPT ![c] = [@ EXCEPT !.present = TRUE, !.results = songs,
                                        !.selected = IF Len(songs) = 1 THEN songs[1]
                                                     ELSE @]]

\* self.user_data[chat_id] = {"results": songs}, then "selected" for a single result
SearchStores(c, songs) ==
    [user_data EXCEPT ![c] = [present |-> TRUE, results |-> songs,
                              selected |-> IF Len(songs) = 1 THEN songs[1] ELSE "none",
                              version_pick |-> "none"]]

\* handle_song_request: the catalog answers with the list songs
Search(c, songs) ==
    /\ IF songs = <<>>
       THEN /\ last' = Event(c, "search", 0 - 1, "ok", songs, <<"no_songs">>, 1)
            /\ UNCHANGED user_data
       ELSE /\ user_data' = SearchStores(c, songs)
            /\ last' = Event(c, "search", 0 - 1, "ok", songs,
                             IF Len(songs) = 1 THEN <<"lyrics", "download_buttons">>
                             ELSE <<"choice_buttons">>, 1)
    /\ UNCHANGED <<files, wpc, left, seen, song, err, textVars, pdfVars>>

\* results[index] with an index that wraps round instead of raising
PickWrapping(results, index) ==
    IF results = <<>> THEN "none" ELSE results[(index % Len(results)) + 1]

\* user_data.get(chat_id, {}).get("results", [])[index]; "none" stands for IndexError
Pick(results, index) ==
    IF index < Len(results) THEN results[index + 1] ELSE "none"

\* handle_song_choice for the callback data "choose::index"
Choose(c, index) ==
    /\ LET picked == Pick(user_data[c].results, index)
       IN  IF picked = "none"
           THEN /\ last' = Event(c, "choose", index, "failed", <<>>, <<"choice_error">>, 0)
                /\ UNCHANGED user_data
           ELSE /\ user_data' = [user_data EXCEPT ![c].selected = picked]
                /\ last' = Event(c, "choose", index, "ok", <<>>,
                                 <<"lyrics", "download_buttons">>, 0)
    /\ UNCHANGED <<files, wpc, left, seen, song, err, textVars, pdfVars>>

\* the test taken as passed whenever the chat has an entry
HasEntry(c) == user_data[c].present

\* "song = ...get('selected')" followed by "if not song"
HasSelected(c) == user_data[c].selected # "none"

\* callback_download_pdf: the document is sent and the file removed, or creating
\* it fails, or sending it fails and the file stays
DownloadPdf(c, outcome) ==
    /\ IF ~HasSelected(c)
       THEN /\ outcome = "sent"
            /\ last' = Event(c, "download_pdf", 0 - 1, "failed", <<>>, <<"pdf_not_found">>, 0)
            /\ UNCHANGED files
       ELSE /\ last' = Event(c, "download_pdf", 0 - 1,
                             IF outcome = "sent" THEN "ok" ELSE "failed", <<>>,
                             IF outcome = "sent" THEN <<"document">> ELSE <<"pdf_error">>, 0)
            /\ files' = IF outcome = "send_failed"
                        THEN files \cup {output_path(user_data[c].selected)}
                        ELSE files
    /\ UNCHANGED <<user_data, wpc, left, seen, song, err, textVars, pdfVars>>

\* callback_download_mp3: one request for the file, sent as audio or reported
DownloadMp3(c, outcome) ==
    /\ IF ~HasSelected(c)
       THEN /\ outcome = "audio"
            /\ last' = Event(c, "download_mp3+", 0 - 1, "failed", <<>>, <<"plus_not_found">>, 0)
       ELSE /\ last' = Event(c, "download_mp3+", 0 - 1, "ok", <<>>, <<"loading", outcome>>, 1)
    /\ UNCHANGED <<user_data, files, wpc, left, seen, song, err, textVars, pdfVars>>

\* callback_download_mp3_minus: the versions are asked for; none, one (sent at
\* once) or several (a pick message is sent and stored), or the request fails
DownloadMp3Minus(c, versions) ==
    /\ IF ~HasSelected(c)
       THEN /\ versions = "none"
            /\ last' = Event(c, "download_mp3-", 0 - 1, "failed", <<>>, <<"minus_not_found">>, 0)
            /\ UNCHANGED user_data
       ELSE IF versions = "failed"
       THEN /\ last' = Event(c, "download_mp3-", 0 - 1, "failed", <<>>, <<"minus_error">>, 1)
            /\ UNCHANGED user_data
       ELSE IF versions = "none"
       THEN /\ last' = Event(c, "download_mp3-", 0 - 1, "ok", <<>>, <<"no_minus">>, 1)
            /\ UNCHANGED user_data
       ELSE IF versions = "one"
       THEN /\ last' = Event(c, "download_mp3-", 0 - 1, "ok", <<>>, <<"loading", "audio">>, 2)
            /\ UNCHANGED user_data
       ELSE /\ last' = Event(c, "download_mp3-", 0 - 1, "ok", <<>>, <<"version_buttons">>, 1)
            /\ user_data' = [user_data EXCEPT ![c].version_pick = "msg"]
    /\ UNCHANGED <<files, wpc, left, seen, song, err, textVars, pdfVars>>

\* callback_download_specific_minus: the chosen version is fetched and sent; the
\* pick message is deleted from the chat, its entry in user_data stays
DownloadSpecificMinus(c, outcome) ==
    /\ IF ~HasSelected(c)
       THEN /\ outcome = "audio"
            /\ last' = Event(c, "download_specific_minus", 0 - 1, "failed", <<>>,
                             <<"song_not_found">>, 0)
       ELSE /\ last' = Event(c, "download_specific_minus", 0 - 1, "ok", <<>>,
                             <<"loading", outcome>>, 1)
    /\ UNCHANGED <<user_data, files, wpc, left, seen, song, err, textVars, pdfVars>>

NextChat ==
    \E c \in Chats :
        \/ SearchFails(c)
        \/ \E songs \in CatalogLists : Search(c, songs)
        \/ \E index \in ButtonIndexes : Choose(c, index)
        \/ \E outcome \in {"sent", "create_failed", "send_failed"} : DownloadPdf(c, outcome)
        \/ \E outcome \in {"audio", "download_failed"} : DownloadMp3(c, outcome)
        \/ \E versions \in {"none", "one", "several", "failed"} : DownloadMp3Minus(c, versions)
        \/ \E outcome \in {"audio", "download_failed"} : DownloadSpecificMinus(c, outcome)

SpecChat == InitChat /\ [][NextChat]_vars

(***************************************************************************)
(* The normalizer's properties.                                            *)
(***************************************************************************)
\* the texts of the worked examples
TextChorusBar ==
    <<"C", "h", "o", "r", "u", "s", "|", "\n", "L", "a", " ", "l", "a">>

TextChorusColon ==
    <<"C", "h", "o", "r", "u", "s", ":", "\n", "L", "a", " ", "l", "a">>

TextLaLa ==
    <<"L", "a", " ", "l", "a">>

TextOneKuplet ==
    <<"1", " ", "U+043A", "U+0443", "U+043F", "U+043B", "U+0435", "U+0442", "\n", "H", "e", "l", "l", "o">>

TextVerse1Hello ==
    <<"V", "e", "r", "s", "e", " ", "1", ":", "\n", "H", "e", "l", "l", "o">>

TextKuplet1Hello ==
    <<"U+041A", "U+0443", "U+043F", "U+043B", "U+0435", "U+0442", " ", "1", ":", "\n", "H", "e", "l", "l", "o">>

TextTwoVerseX ==
    <<"2", "V", "E", "R", "S", "E", " ", "x">>

TextVerse2 ==
    <<"V", "e", "r", "s", "e", " ", "2", ":">>

TextAmGC ==
    <<"A", "m", " ", "G", " ", "C">>

TextAmGCaesar ==
    <<"A", "m", " ", "G", " ", "C", "a", "e", "s", "a", "r">>

TextAmGCLaLa ==
    <<"A", "m", " ", "G", " ", "C", "\n", "L", "a", " ", "l", "a">>

TextTwoHeaders ==
    <<"#", "#", "(", "a", " ", "x", "\n", "f", "o", "o", "\n", "#", "#", "(", "a", " ", "x">>

TextTwoHeadersSpaced ==
    <<"#", "#", "(", "a", " ", "x", "\n", "f", "o", "o", "\n", "\n", "#", "#", "(", "a", " ", "x">>

Range(f) == {f[i] : i \in DOMAIN f}

\* the lines of a text, each trimmed
TrimmedLines(text) == [i \in DOMAIN split_on(text, "\n") |-> strip(split_on(text, "\n")[i])]

\* the raw input's lines, and its lines once the entities are stripped
RawLines(v) == IF isinstance_str(v) THEN TrimmedLines(v.chars) ELSE <<>>

CleanLines(v) == IF isinstance_str(v) THEN TrimmedLines(remove_entities(v.chars)) ELSE <<>>

OutLines(v) == IF v.chars = <<>> THEN <<>> ELSE split_on(v.chars, "\n")

HasEntity(s) == \E i \in 1..Len(s) : EntityLen(SubSeq(s, i, Len(s))) > 0

TokenIsChordLike(t) == CHORD_REGEX_match(t) \/ \E sym \in CHORD_SYMBOLS : contains(t, sym)

AllTokensChordLike(line) ==
    \A k \in 1..Len(split_ws(line)) : TokenIsChordLike(split_ws(line)[k])

IsHeader(line) == startswith(line, <<"#", "#", "(">>)

\* C1 as stated: format_song is idempotent, format_song(format_song(x)) =
\* format_song(x) for every input x.
C1_Idempotent == fpc = "twice" => out2 = out1

\* C1 amended: format_song(format_song(x)) = format_song(x) exactly when
\* format_song(x) holds no HTML-entity pattern; entities are stripped in one
\* pass, so a nested fragment leaves an entity that the second run removes.
C1_IdempotentUnlessEntityLeft ==
    fpc = "twice" => (out2 = out1 <=> ~HasEntity(out1.chars))

C1_Witness ==
    /\ fpc = "twice"
    /\ HasEntity(raw.chars)
    /\ \E i \in DOMAIN CleanLines(raw) : is_section_label(CleanLines(raw)[i])
    /\ out1.chars # <<>>
    /\ out1 # raw
    /\ out2 = out1

EndsWithOneDelimiter(line) ==
    /\ Len(line) >= 2
    /\ line[Len(line)] \in {":", "|"}
    /\ line[Len(line) - 1] \notin {":", "|"}

WithColon(line) == SubSeq(line, 1, Len(line) - 1) \o <<":">>

\* C2 as stated: every line that starts with a section label and ends with a
\* single ':' or '|' is kept, the delimiter replaced by one ':'; "Chorus|\nLa la"
\* normalizes to "Chorus:\nLa la".
C2_LabelLineKept ==
    fpc # "input" =>
        /\ \A i \in DOMAIN CleanLines(raw) :
              LET line == CleanLines(raw)[i]
              IN  is_section_label(line) /\ EndsWithOneDelimiter(line)
                      => WithColon(line) \in Range(OutLines(out1))
        /\ raw = Str(TextChorusBar)
              => out1 = Str(TextChorusColon)

\* C2 amended: a line that starts with a section label, is neither a chord line
\* nor a numbered section, and ends with a single ':' or '|' is kept with the
\* delimiter replaced by one ':'; "Chorus|" is a chord line (its one token holds
\* '|'), so "Chorus|\nLa la" normalizes to "La la", and "Chorus:\nLa la" to itself.
C2_LabelLineKeptUnlessChord ==
    fpc # "input" =>
        /\ \A i \in DOMAIN CleanLines(raw) :
              LET line == CleanLines(raw)[i]
              IN  /\ is_section_label(line)
                  /\ EndsWithOneDelimiter(line)
                  /\ ~AllTokensChordLike(line)
                  /\ is_numbered_section(line) = NoMatch
                  => WithColon(line) \in Range(OutLines(out1))
        /\ raw = Str(TextChorusBar)
              => out1 = Str(TextLaLa)
        /\ raw = Str(TextChorusColon)
              => out1 = Str(TextChorusColon)

C2_Witness ==
    /\ fpc = "once"
    /\ \E i \in DOMAIN CleanLines(raw) :
          LET line == CleanLines(raw)[i]
          IN  /\ is_section_label(line)
              /\ line[Len(line)] = "|"
              /\ EndsWithOneDelimiter(line)
              /\ ~AllTokensChordLike(line)
              /\ is_numbered_section(line) = NoMatch
              /\ WithColon(line) \in Range(OutLines(out1))

\* the numbered-section words: the kind C3 names and the word capitalized
NumberedKinds ==
    {[word |-> <<"v", "e", "r", "s", "e">>,
      kind |-> <<"V", "e", "r", "s", "e">>,
      capitalized |-> <<"V", "e", "r", "s", "e">>],
     [word |-> <<"b", "r", "i", "d", "g", "e">>,
      kind |-> <<"B", "r", "i", "d", "g", "e">>,
      capitalized |-> <<"B", "r", "i", "d", "g", "e">>],
     [word |-> <<"U+043A", "U+0443", "U+043F", "U+043B", "U+0435", "U+0442">>,
      kind |-> <<"V", "e", "r", "s", "e">>,
      capitalized |-> <<"U+041A", "U+0443", "U+043F", "U+043B", "U+0435", "U+0442">>],
     [word |-> <<"U+0431", "U+0440", "U+0438", "U+0434", "U+0436">>,
      kind |-> <<"B", "r", "i", "d", "g", "e">>,
      capitalized |-> <<"U+0411", "U+0440", "U+0438", "U+0434", "U+0436">>]}

\* line starts with d digits, optional whitespace, then word (in any letter case)
\* at position w
NumberedAt(line, word, d, w) ==
    /\ d \in 1..Len(line)
    /\ w \in (d + 1)..Len(line)
    /\ \A i \in 1..d : IsDigit(line[i])
    /\ \A i \in (d + 1)..(w - 1) : IsSpace(line[i])
    /\ startswith_at(lower(line), word, w)

\* C3 as stated: a line consisting of digits N, optional whitespace and one of
\* verse/bridge or their Russian words becomes "<Kind> N:", Kind being Verse or
\* Bridge; "1 <kuplet>\nHello" normalizes to "Verse 1:\nHello".
C3_NumberedAsVerseBridge ==
    fpc # "input" =>
        /\ \A i \in DOMAIN CleanLines(raw) : \A k \in NumberedKinds :
              LET line == CleanLines(raw)[i]
              IN  \A d \in 1..Len(line) :
                      NumberedAt(line, k.word, d, Len(line) - Len(k.word) + 1)
                          => (k.kind \o <<" ">> \o SubSeq(line, 1, d) \o <<":">>)
                                 \in Range(OutLines(out1))
        /\ raw = Str(TextOneKuplet) => out1 = Str(TextVerse1Hello)

\* C3 amended: a line that starts with digits N, optional whitespace and one of
\* those words, unless it is a chord line, becomes "<Word> N:", Word being the
\* matched word itself with its first letter upper-cased and the rest lower-cased
\* (the Russian words are not translated); the rest of the line is discarded;
\* "1 <kuplet>\nHello" normalizes to "<Kuplet> 1:\nHello".
C3_NumberedAsCapitalizedWord ==
    fpc # "input" =>
        /\ \A i \in DOMAIN CleanLines(raw) : \A k \in NumberedKinds :
              LET line == CleanLines(raw)[i]
              IN  \A d \in 1..Len(line) : \A w \in 1..Len(line) :
                      NumberedAt(line, k.word, d, w) /\ ~AllTokensChordLike(line)
                          => (k.capitalized \o <<" ">> \o SubSeq(line, 1, d) \o <<":">>)
                                 \in Range(OutLines(out1))
        /\ raw = Str(TextOneKuplet) => out1 = Str(TextKuplet1Hello)
        /\ raw = Str(TextTwoVerseX) => out1 = Str(TextVerse2)

C3_Witness ==
    /\ fpc = "once"
    /\ raw = Str(TextOneKuplet)
    /\ out1 = Str(TextKuplet1Hello)

\* C4: a non-blank line is a chord line, and is dropped, exactly when every
\* whitespace-separated token matches the chord grammar or holds a chord symbol:
\* "Am G C" is one, "Am G Caesar" is not, and a line with a token that is neither
\* is never dropped.
C4_ChordLineIffEveryToken ==
    /\ is_chord_line(TextAmGC)
    /\ ~is_chord_line(TextAmGCaesar)
    /\ fpc # "input" =>
          LET ls == CleanLines(raw)
              kept == {i \in DOMAIN ls : ls[i] # <<>> /\ ~AllTokensChordLike(ls[i])}
              shown == {j \in DOMAIN OutLines(out1) : OutLines(out1)[j] # <<>>}
          IN  /\ \A i \in DOMAIN ls :
                    ls[i] # <<>> => (is_chord_line(ls[i]) <=> AllTokensChordLike(ls[i]))
              /\ Cardinality(shown) = Cardinality(kept)
              /\ raw = Str(TextAmGCaesar)
                    => out1 = raw

C4_Witness ==
    /\ fpc = "once"
    /\ raw = Str(TextAmGCLaLa)
    /\ out1 = Str(TextLaLa)

NoDoubleBlank(o) == \A j \in 1..(Len(o) - 1) : ~(o[j] = <<>> /\ o[j + 1] = <<>>)

\* in o, a blank line right before each header but the first, and only one
HeadersSpaced(o) ==
    LET hs == {j \in DOMAIN o : IsHeader(o[j])}
    IN  /\ Cardinality(hs) >= 2
        /\ \A j \in hs :
              IF j = SetMin(hs) THEN j = 1 \/ o[j - 1] # <<>>
              ELSE o[j - 1] = <<>> /\ o[j - 2] # <<>>

\* C5 as stated: when the input has two lines starting with "##(" with non-blank
\* content between them, the output has one inserted blank line right before the
\* second and none before the first; no output has two blank lines in a row.
C5_HeaderSpacing ==
    fpc # "input" =>
        /\ NoDoubleBlank(OutLines(out1))
        /\ LET ls == CleanLines(raw)
               hs == {i \in DOMAIN ls : IsHeader(ls[i])}
           IN  (\E i \in hs : \E j \in hs : \E k \in DOMAIN ls :
                    i < k /\ k < j /\ ls[k] # <<>>)
                   => HeadersSpaced(OutLines(out1))

\* C5 amended: a line starting with "##(" counts only if it is not a chord line
\* (all of whose tokens are chord-like, as in "##(b)": such a line is dropped);
\* when two or more such lines survive, the output has one blank line right
\* before the second and each later one, none before the first, and no other
\* blank line; no output has two blank lines in a row.
C5_SurvivingHeaderSpacing ==
    fpc # "input" =>
        /\ NoDoubleBlank(OutLines(out1))
        /\ LET ls == CleanLines(raw)
               hs == {i \in DOMAIN ls : IsHeader(ls[i]) /\ ~AllTokensChordLike(ls[i])}
               o == OutLines(out1)
           IN  /\ Cardinality({j \in DOMAIN o : IsHeader(o[j])}) = Cardinality(hs)
               /\ Cardinality(hs) >= 2 =>
                     /\ HeadersSpaced(o)
                     /\ Cardinality({j \in DOMAIN o : o[j] = <<>>}) = Cardinality(hs) - 1
               /\ Cardinality(hs) < 2 => \A j \in DOMAIN o : o[j] # <<>>

C5_Witness ==
    /\ fpc = "once"
    /\ raw = Str(TextTwoHeaders)
    /\ out1 = Str(TextTwoHeadersSpaced)

\* C6 as stated: an input whose lines are all blank or chord-only normalizes to
\* the empty string.
C6_BlankOrChordToEmpty ==
    fpc # "input" /\ isinstance_str(raw) =>
        ((\A i \in DOMAIN RawLines(raw) : AllTokensChordLike(RawLines(raw)[i]))
             => out1 = Str(<<>>))

\* C6 amended: an input whose lines, once the HTML entities are stripped, are all
\* blank or chord-only normalizes to the empty string (a token that is chord-like
\* only through the text of an entity, as "&x2;Hello", is not).
C6_CleanBlankOrChordToEmpty ==
    fpc # "input" /\ isinstance_str(raw) =>
        ((\A i \in DOMAIN CleanLines(raw) : AllTokensChordLike(CleanLines(raw)[i]))
             => out1 = Str(<<>>))

C6_Witness ==
    /\ fpc = "once"
    /\ \E i \in DOMAIN CleanLines(raw) : CleanLines(raw)[i] = <<>>
    /\ \E i \in DOMAIN CleanLines(raw) :
          CleanLines(raw)[i] # <<>> /\ AllTokensChordLike(CleanLines(raw)[i])
    /\ \A i \in DOMAIN CleanLines(raw) : AllTokensChordLike(CleanLines(raw)[i])
    /\ out1 = Str(<<>>)

\* C7: format_song is total; whatever the input (empty, whitespace-only, with
\* entities, not a string) it returns a string and raises nothing, and an empty
\* or whitespace-only input (or a value that is no string) gives the empty string.
C7_Total ==
    /\ fpc # "input" =>
          /\ isinstance_str(out1)
          /\ ~isinstance_str(raw) \/ strip(raw.chars) = <<>> => out1 = Str(<<>>)
    /\ fpc = "twice" => isinstance_str(out2)

C7_Witness ==
    /\ fpc = "twice"
    /\ ~isinstance_str(raw)
    /\ out1 = Str(<<>>)
    /\ out2 = Str(<<>>)

\* the class of a trimmed line, the tests taken in the order blank, chord line,
\* numbered section, labeled section, plain
IsNumbered(line) ==
    \E k \in NumberedKinds : \E d \in 1..Len(line) : NumberedAt(line, k.word, d, d + 1)
        \/ \E w \in (d + 2)..Len(line) : NumberedAt(line, k.word, d, w)

ClassOf(line) ==
    IF line = <<>> THEN "blank"
    ELSE IF AllTokensChordLike(line) THEN "chord"
    ELSE IF IsNumbered(line) THEN "numbered"
    ELSE IF is_section_label(line) THEN "labeled"
    ELSE "plain"

\* "<Word> N:" for a numbered line: N its leading digits, Word the word that
\* follows them, capitalized
NumberedText(line) ==
    LET hit == CHOOSE h \in NumberedKinds \X (1..Len(line)) \X (1..Len(line)) :
                   NumberedAt(line, h[1].word, h[2], h[3])
    IN  hit[1].capitalized \o <<" ">> \o SubSeq(line, 1, hit[2]) \o <<":">>

LabeledText(line) ==
    IF line[Len(line)] \in {":", "|"} THEN WithColon(line) ELSE line \o <<":">>

Survives(line) == ClassOf(line) \notin {"blank", "chord"}

NotBlank(line) == line # <<>>

\* the lines of the input that are neither blank nor chord lines, and the
\* lines of the output that are not blank, each in order
Surviving(v) == SelectSeq(CleanLines(v), Survives)

RawSurviving(v) == SelectSeq(RawLines(v), Survives)

NonBlankOut(v) == SelectSeq(OutLines(v), NotBlank)

\* C17: the per-line tests are applied in the order blank, chord line, numbered
\* section, labeled section, plain, and the first match wins: the output's
\* lines are, in order, those of the input's lines that are neither blank nor
\* chord lines (a chord line that also passes a section test is dropped), a
\* line passing the numbered-section test rewritten "<Word> N:" even when it
\* starts with a section label, any other line starting with a label rewritten
\* with one ':' at its end.
C17_FirstMatchWins ==
    fpc # "input" /\ isinstance_str(raw) =>
        /\ Len(NonBlankOut(out1)) = Len(Surviving(raw))
        /\ \A k \in DOMAIN Surviving(raw) :
              LET line == Surviving(raw)[k]
              IN  /\ ClassOf(line) = "numbered" => NonBlankOut(out1)[k] = NumberedText(line)
                  /\ ClassOf(line) = "labeled" => NonBlankOut(out1)[k] = LabeledText(line)

C17_Witness ==
    /\ fpc = "once"
    /\ \E i \in DOMAIN CleanLines(raw) :
          /\ AllTokensChordLike(CleanLines(raw)[i])
          /\ is_section_label(CleanLines(raw)[i])
          /\ CleanLines(raw)[i] # <<>>
    /\ out1.chars = <<"L", "a", " ", "l", "a">>

\* the other overlap: a numbered line that starts with a label (a digit)
C17_NumberedLabelReached ==
    /\ fpc = "once"
    /\ \E k \in DOMAIN Surviving(raw) :
          /\ IsNumbered(Surviving(raw)[k])
          /\ is_section_label(Surviving(raw)[k])
          /\ NonBlankOut(out1)[k] = NumberedText(Surviving(raw)[k])
          /\ NonBlankOut(out1)[k] # LabeledText(Surviving(raw)[k])

\* C18 as stated: a line of the input that is not blank, not a chord line, not
\* a numbered section and does not start with a label appears in the output as
\* its trimmed input text, the surviving lines in their input order.
C18_PlainLineUnchanged ==
    fpc # "input" /\ isinstance_str(raw) =>
        /\ \A i \in DOMAIN RawLines(raw) :
              ClassOf(RawLines(raw)[i]) = "plain"
                  => RawLines(raw)[i] \in Range(OutLines(out1))
        /\ \A k \in DOMAIN RawSurviving(raw) :
              ClassOf(RawSurviving(raw)[k]) = "plain" /\ k \in DOMAIN NonBlankOut(out1)
                  => NonBlankOut(out1)[k] = RawSurviving(raw)[k]

\* C18 amended: the lines are judged and kept as they are after the HTML
\* entities have been stripped: a line that is then not blank, not a chord line,
\* not a numbered section and does not start with a label appears in the output
\* as its trimmed entity-stripped text, and the surviving lines keep their order.
C18_CleanPlainLineUnchanged ==
    fpc # "input" /\ isinstance_str(raw) =>
        /\ Len(NonBlankOut(out1)) = Len(Surviving(raw))
        /\ \A k \in DOMAIN Surviving(raw) :
              ClassOf(Surviving(raw)[k]) = "plain"
                  => NonBlankOut(out1)[k] = Surviving(raw)[k]

C18_Witness ==
    /\ fpc = "once"
    /\ Len(Surviving(raw)) >= 2
    /\ HasEntity(raw.chars)
    /\ ClassOf(Surviving(raw)[1]) = "plain"
    /\ ClassOf(Surviving(raw)[2]) = "plain"
    /\ Surviving(raw)[1] # Surviving(raw)[2]
    /\ NonBlankOut(out1) = Surviving(raw)

\* C19: for texts x and y none of whose lines starts with "##(" (entities
\* stripped, trimmed), the lines of format_song(x + "\n" + y) are the lines of
\* format_song(x) followed by the lines of format_song(y); the empty text has
\* no lines.
C19_LineByLine ==
    fpc # "input" /\ isinstance_str(raw) =>
        \A p \in 1..Len(raw.chars) :
            /\ raw.chars[p] = "\n"
            /\ \A i \in DOMAIN CleanLines(raw) : ~IsHeader(CleanLines(raw)[i])
            => LET x == SubSeq(raw.chars, 1, p - 1)
                   y == SubSeq(raw.chars, p + 1, Len(raw.chars))
               IN  OutLines(out1) = OutLines(format_song(Str(x)))
                                        \o OutLines(format_song(Str(y)))

C19_Witness ==
    /\ fpc = "once"
    /\ \A i \in DOMAIN CleanLines(raw) : ~IsHeader(CleanLines(raw)[i])
    /\ \E p \in 1..Len(raw.chars) :
          /\ raw.chars[p] = "\n"
          /\ LET x == SubSeq(raw.chars, 1, p - 1)
                 y == SubSeq(raw.chars, p + 1, Len(raw.chars))
             IN  /\ format_song(Str(x)).chars # <<>>
                 /\ format_song(Str(y)).chars # <<>>
                 /\ format_song(Str(x)).chars # x
                 /\ Len(OutLines(format_song(Str(y)))) = 2
                 /\ Len(OutLines(out1)) = 3

(***************************************************************************)
(* The font-size search's properties.                                      *)
(***************************************************************************)
\* C8: with a page count that does not grow as the font shrinks, the search
\* ends at the largest size start - k*0.5 at or above the floor at which the
\* text lays out on one page, when there is one: it reports one page there and
\* every size above it overflows.
C8_LargestFittingSize ==
    pc = "done" /\ gap = 0 =>
        LET fit == {s \in min_font_size..StartFontSize : page_no(s) = 1}
        IN  fit # {} =>
                /\ font_size = SetMax(fit)
                /\ pdf_pages = 1
                /\ saved = font_size
                /\ \A s \in (font_size + 1)..StartFontSize : page_no(s) > 1

C8_Witness ==
    /\ pc = "done"
    /\ gap = 0
    /\ min_font_size < font_size
    /\ font_size < StartFontSize
    /\ pdf_pages = 1
    /\ page_no(font_size + 1) > 1

\* C9: the search ends after a bounded number of layouts whatever the oracle
\* says: at most ceil((start - floor)/0.5) probes in the coarse loop, the final
\* render, and at most 10 renders in the additional-reduction loop; short of the
\* end it can always take its next step.
C9_BoundedLayouts ==
    /\ probes <= Max(0, StartFontSize - min_font_size)
    /\ renders <= 1 + max_attempts
    /\ attempts <= max_attempts
    /\ pc \notin {"done", "idle"} => ENABLED NextPdf

C9_Witness ==
    /\ pc = "done"
    /\ \A s \in min_font_size..StartFontSize : page_no(s) > 1
    /\ min_font_size < StartFontSize
    /\ probes = StartFontSize - min_font_size
    /\ pdf_pages > 1

\* C10 as stated (with the default floor): when the oracle reports one page at
\* the starting size, the search returns the starting size and one page after
\* exactly one layout call.
C10_OneCallAtStart ==
    pc = "done" /\ page_no(StartFontSize) = 1 /\ min_font_size = DefaultMinFontSize =>
        /\ font_size = StartFontSize
        /\ pdf_pages = 1
        /\ probes + renders = 1

\* C10 amended: when the oracle reports one page at the starting size and the
\* floor is below it, the search returns the starting size and one page after
\* exactly two layouts at that size, the one probe of the coarse loop and the
\* final render, and never enters the additional-reduction loop.
C10_OneProbeThenRender ==
    pc = "done" /\ page_no(StartFontSize) = 1 /\ min_font_size < StartFontSize =>
        /\ font_size = StartFontSize
        /\ pdf_pages = 1
        /\ saved = StartFontSize
        /\ probes = 1
        /\ renders = 1
        /\ attempts = 0

C10_Witness ==
    /\ pc = "done"
    /\ page_no(StartFontSize) = 1
    /\ min_font_size < StartFontSize
    /\ font_size = StartFontSize
    /\ probes = 1

\* C11: when the minimum font size equals the starting font size the search
\* lays the text out exactly once, at that size: no probe in the coarse loop,
\* one render, and the document saved is that render, its page count the
\* render's, its size the minimum.
C11_FloorAtStartOneLayout ==
    pc = "done" /\ min_font_size = StartFontSize =>
        /\ probes + renders = 1
        /\ renders = 1
        /\ pdf_size = min_font_size
        /\ pdf_pages = page_no(min_font_size)
        /\ font_size = min_font_size
        /\ saved = min_font_size

C11_Witness ==
    /\ pc = "done"
    /\ min_font_size = StartFontSize
    /\ renders = 1
    /\ pdf_pages > 1
    /\ saved = StartFontSize

\* C12: when the minimum font size is at or above the starting font size the
\* coarse loop body never runs (no probe), and the text is rendered once at
\* exactly the minimum font size, which is the size of the saved document.
C12_FloorAboveStartRendersAtFloor ==
    min_font_size >= StartFontSize =>
        /\ probes = 0
        /\ pc \in {"save", "done"} => renders = 1 /\ pdf_size = min_font_size
                                        /\ font_size = min_font_size
        /\ pc = "done" => saved = min_font_size

C12_Witness ==
    /\ pc = "done"
    /\ min_font_size > StartFontSize
    /\ probes = 0
    /\ renders = 1
    /\ saved = min_font_size

\* C13 as stated: over the whole search, for every configured minimum font
\* size, the value of font_size never increases from one step to the next.
C13_NeverIncreases == [][font_size' <= font_size]_vars

\* C13 amended: font_size never increases from one step to the next, except
\* that with a minimum above the starting size the loop never runs and the
\* floor clamp max(font_size, min_font_size) raises it once from the start to
\* the minimum; once it has decreased it never increases.
C13_NeverIncreasesButFloorClamp ==
    [][\/ font_size' <= font_size
       \/ /\ pc = "found"
          /\ probes = 0
          /\ font_size = StartFontSize
          /\ min_font_size > StartFontSize
          /\ font_size' = min_font_size]_vars

C13_Witness ==
    /\ pc = "done"
    /\ impl = "main"
    /\ probes = StartFontSize - min_font_size
    /\ attempts = 1
    /\ font_size = min_font_size

\* the oracle reports more than one page at every size the search can use
NoSizeFits ==
    \A s \in {min_font_size} \cup (min_font_size..StartFontSize) : page_no(s) > 1

\* C14: when the oracle reports more than one page at every size down to the
\* floor, the creation still goes on to its end: every step short of the end has
\* a successor, and at the end the document is written at the floor size with
\* its page count (more than one) reported.
C14_NoFitStillSaved ==
    pc # "idle" /\ NoSizeFits =>
        /\ pc # "done" => ENABLED NextPdf
        /\ pc = "done" =>
              /\ saved = min_font_size
              /\ saved = pdf_size
              /\ font_size = min_font_size
              /\ pdf_pages > 1

C14_Witness ==
    /\ pc = "done"
    /\ NoSizeFits
    /\ impl = "generator"
    /\ min_font_size = CustomMinFontSize
    /\ saved = min_font_size
    /\ pdf_pages > 1

\* C20: the additional-reduction loop of main.py runs only when the render
\* after the coarse loop has more than one page; it makes at most 10 decrements
\* of 0.5; it goes on only while the last render has more than one page, the
\* size is above the minimum and the budget is not used up, and it ends at a
\* one-page render, at the minimum font size, or with the budget used up.
C20_AdditionalReductionBounded ==
    /\ attempts <= max_attempts
    /\ attempts > 0 \/ pc = "reduce" => impl = "main" /\ renders >= 1
    /\ pc = "reduce" => pdf_pages > 1
    /\ pc = "reduce" /\ attempts > 0 =>
          /\ font_size > min_font_size
          /\ attempts < max_attempts
    /\ pc \in {"save", "done"} /\ attempts > 0 =>
          \/ pdf_pages = 1
          \/ font_size = min_font_size
          \/ attempts = max_attempts
    /\ pc \in {"save", "done"} /\ impl = "main" /\ attempts = 0 => pdf_pages = 1
    /\ pc # "idle" /\ attempts > 0 =>
          font_size >= min_font_size

C20_Witness ==
    /\ pc = "done"
    /\ impl = "main"
    /\ attempts = 1
    /\ attempts < max_attempts
    /\ font_size = min_font_size
    /\ pdf_pages > 1

\* C21: the floor is never undershot: each probe of the coarse loop, the final
\* render and each render of the additional-reduction loop lays the text out at
\* a size at or above the minimum font size, and so is the size reported at
\* the end.
C21_FloorNeverUndershot ==
    [][/\ probes' > probes => font_size >= min_font_size
       /\ renders' > renders => pdf_size' >= min_font_size
       /\ pc' = "done" => /\ font_size' >= min_font_size
                          /\ saved' >= min_font_size]_vars

C21_Witness ==
    /\ pc = "done"
    /\ impl = "main"
    /\ probes = StartFontSize - min_font_size
    /\ renders = 1
    /\ attempts = 1
    /\ pdf_size = min_font_size
    /\ font_size = min_font_size

\* what either create_pdf comes to with the default floor, told from the oracle
\* alone: the first size from the start downwards, above the floor, that fits,
\* else the floor
DefaultFit == {s \in (DefaultMinFontSize + 1)..StartFontSize : page_no(s) = 1}

DefaultSize == IF DefaultFit = {} THEN DefaultMinFontSize ELSE SetMax(DefaultFit)

DefaultProbes ==
    IF DefaultFit = {} THEN StartFontSize - DefaultMinFontSize
    ELSE StartFontSize - DefaultSize + 1

\* C22: with the defaults and a deterministic oracle main.py's create_pdf and
\* LyricsPDFGenerator.create_pdf make the same layout calls and end alike: the
\* k-th probe is at start - (k-1)*0.5 in both, both make as many probes as the
\* oracle alone decides, then one render, and end with the same size and page
\* count; the additional-reduction loop of main.py adds no layout.
C22_SameChoiceInBothCreatePdf ==
    min_font_size = DefaultMinFontSize /\ pc # "idle" =>
        /\ pc = "coarse" => font_size = StartFontSize - probes * CoarseStep
        /\ pc \in {"found", "reduce", "save", "done"} => probes = DefaultProbes
        /\ pc \in {"reduce", "save", "done"} =>
              /\ renders = 1
              /\ pdf_size = DefaultSize
              /\ pdf_pages = page_no(DefaultSize)
        /\ pc \in {"save", "done"} => font_size = DefaultSize
        /\ pc = "done" => saved = DefaultSize

C22_Witness ==
    /\ pc = "done"
    /\ impl = "main"
    /\ min_font_size = DefaultMinFontSize
    /\ attempts = 1
    /\ renders = 1
    /\ probes = DefaultProbes
    /\ font_size = DefaultSize
    /\ pdf_pages > 1

\* the generator's run on the same oracle ends in the same way
C22_GeneratorReached ==
    /\ pc = "done"
    /\ impl = "generator"
    /\ min_font_size = DefaultMinFontSize
    /\ attempts = 0
    /\ renders = 1
    /\ probes = DefaultProbes
    /\ font_size = DefaultSize
    /\ pdf_pages > 1

\* C23: in main.py's create_pdf the document written to output_path was laid
\* out at exactly the final font size, on every path: after the final render,
\* after a render of the additional-reduction loop, and after its clamp-and-
\* break, which does not render again.
C23_SavedAtReportedSize ==
    impl = "main" =>
        /\ pc \in {"save", "done"} => pdf_size = font_size
        /\ pc = "done" => saved = font_size /\ pdf_pages = page_no(font_size)

C23_Witness ==
    /\ pc = "done"
    /\ impl = "main"
    /\ attempts = 1
    /\ renders = 1
    /\ saved = font_size
    /\ saved = min_font_size

(***************************************************************************)
(* The properties of concurrent downloads and of the probe's file.         *)
(***************************************************************************)
Running == {w \in Workers : wpc[w] # "off"}

\* a download running alone never meets a missing file, and each probe it
\* returns from has removed temp_check.pdf
AloneNoInterference ==
    Cardinality(Running) = 1 =>
        \A w \in Running :
            /\ err[w] # "FileNotFoundError"
            /\ wpc[w] \in {"probe_return", "output"} => temp_pdf_path \notin files
            /\ wpc[w] = "done" => files = {}

\* C15 as stated: two PDF fits running concurrently are independent: under
\* every interleaving of their file steps neither call fails where it would not
\* fail alone, that is, neither meets a FileNotFoundError.
C15_ConcurrentFitsIndependent ==
    \A w \in Workers : wpc[w] = "failed" => err[w] \in {"OSError", "ApiException"}

\* C16 as stated: whenever a probe has finished, by returning or by failing
\* while writing, the file temp_check.pdf does not exist.
C16_NoTempFileLeft ==
    \A w \in Workers :
        wpc[w] = "probe_return" \/ (wpc[w] = "failed" /\ err[w] = "OSError" /\ left[w] > 0)
            => temp_pdf_path \notin files

\* C27 as stated: once the PDF download handler has finished for a chat with a
\* selected song (no other download running), the file "<song name>.pdf" does
\* not exist, whether the document was sent or creating or sending it failed.
C27_OutputFileRemoved ==
    \A w \in Workers :
        Running = {w} /\ wpc[w] \in {"done", "failed"}
            => output_path(song[w]) \notin files

\* after a download that ran alone and sent its document, the file is gone
SentAloneLeavesNoOutput ==
    \A w \in Workers :
        Running = {w} /\ wpc[w] = "done" => output_path(song[w]) \notin files

(***************************************************************************)
(* The properties of the per-chat state.                                   *)
(***************************************************************************)
Downloads == {"download_pdf", "download_mp3+", "download_mp3-", "download_specific_minus"}

NotFoundReply ==
    [e \in Downloads |->
        IF e = "download_pdf" THEN "pdf_not_found"
        ELSE IF e = "download_mp3+" THEN "plus_not_found"
        ELSE IF e = "download_mp3-" THEN "minus_not_found"
        ELSE "song_not_found"]

\* C24: whenever a chat has a selected song, the song is an element of the
\* chat's stored results; a "choose::i" event selects element i of the results
\* stored for its chat at that moment and changes nothing else, and an index
\* outside them changes nothing and is answered with the error message.
C24_SelectedAmongResults ==
    [][/\ \A c \in Chats :
             user_data'[c].selected # "none"
                 => user_data'[c].selected \in Range(user_data'[c].results)
       /\ last'.event = "choose" =>
             LET c == last'.chat
                 i == last'.index
                 results == user_data[c].results
             IN  IF i < Len(results)
                 THEN /\ user_data' = [user_data EXCEPT ![c].selected = results[i + 1]]
                      /\ last'.replies = <<"lyrics", "download_buttons">>
                 ELSE /\ user_data' = user_data
                      /\ last'.replies = <<"choice_error">>]_vars

C24_Witness ==
    /\ last.event = "choose"
    /\ last.index = 1
    /\ last.status = "ok"
    /\ Len(user_data[last.chat].results) = 2
    /\ user_data[last.chat].selected = user_data[last.chat].results[2]
    /\ user_data[last.chat].results[1] # user_data[last.chat].results[2]

\* a stale button: the index lies outside the chat's present results
C24_StaleButtonReached ==
    /\ last.event = "choose"
    /\ last.status = "failed"
    /\ last.replies = <<"choice_error">>
    /\ last.index >= Len(user_data[last.chat].results)
    /\ user_data[last.chat].selected # "none"

\* C25: a download event (PDF, MP3 with vocals, MP3 minus, a specific minus
\* version) for a chat without a selected song sends that chat the one "not
\* found" message and does nothing else: no catalog request, no file created,
\* user_data unchanged.
C25_DownloadWithoutSelection ==
    [][last'.event \in Downloads /\ user_data[last'.chat].selected = "none" =>
          /\ last'.replies = <<NotFoundReply[last'.event]>>
          /\ last'.catalog = 0
          /\ files' = files
          /\ user_data' = user_data]_vars

C25_Witness ==
    /\ last.event = "download_mp3-"
    /\ last.replies = <<"minus_not_found">>
    /\ user_data[last.chat].present
    /\ user_data[last.chat].selected = "none"
    /\ \E c \in Chats : user_data[c].selected # "none" /\ user_data[c].version_pick # "none"
    /\ files # {}

\* C26: a search changes user_data only when the catalog returns at least one
\* song: the chat's entry then holds the new list and nothing of the old entry
\* (no selection, no version-pick message), except that a single returned song
\* is selected; a search that returns no song or whose catalog request fails
\* leaves user_data as it was.  Other chats' entries are never touched.
C26_SearchReplacesEntry ==
    [][last'.event = "search" =>
          LET c == last'.chat
              songs == last'.answer
          IN  IF last'.status = "ok" /\ songs # <<>>
              THEN /\ user_data'[c].present
                   /\ user_data'[c].results = songs
                   /\ user_data'[c].version_pick = "none"
                   /\ user_data'[c].selected # "none" <=> Len(songs) = 1
                   /\ Len(songs) = 1 => user_data'[c].selected = songs[1]
                   /\ \A d \in Chats \ {c} : user_data'[d] = user_data[d]
              ELSE user_data' = user_data]_vars

C26_Witness ==
    /\ last.event = "search"
    /\ last.status = "ok"
    /\ Len(last.answer) = 2
    /\ user_data[last.chat].results = last.answer
    /\ user_data[last.chat].selected = "none"
    /\ \E c \in Chats : user_data[c].selected # "none" /\ user_data[c].version_pick # "none"

\* a search without a result after a selection: the selection stays
C26_EmptySearchReached ==
    /\ last.event = "search"
    /\ last.answer = <<>>
    /\ user_data[last.chat].selected # "none"
    /\ user_data[last.chat].version_pick # "none"
====
